---- MODULE Spec2Model ----
(***************************************************************************)
(* Naive Bayes classification of methods/bayes (bayes.py).                 *)
(*                                                                         *)
(* bayes.py assembles SQL text; what the program does is what the          *)
(* database computes when it runs that text.  The model therefore gives    *)
(* each __get_*_sql query its relational meaning: a relation is a sequence *)
(* of rows (a bag: duplicates are kept, row order carries no meaning), and *)
(* the SQL operators (cross join, outer join, GROUP BY, DISTINCT, UNION,   *)
(* aggregates that skip NULL) are computed as PostgreSQL computes them.    *)
(* A kwargs dict is a function from parameter names to values; a source    *)
(* parameter holds what the code puts there, the name of a relation or the *)
(* text of a subquery, written "(attr_values)" for the parenthesized text  *)
(* that __get_attr_values_sql returns, and so on.                          *)
(*                                                                         *)
(* Numbers.  log() is the base-10 logarithm of a positive rational.  A     *)
(* log value is kept as the rational it is the logarithm of, in            *)
(* scientific notation: [num, den, dec] stands for                         *)
(*      log10(num / den) - dec.                                            *)
(* Adding logarithms multiplies num and den and adds dec; comparing        *)
(* logarithms compares the rationals (log10 is strictly increasing).       *)
(* The arithmetic is exact: the rounding of DOUBLE PRECISION is not        *)
(* modelled.                                                               *)
(***************************************************************************)
EXTENDS Integers, Sequences, FiniteSets, TLC

\* ------------------------------------------------------------------ bounds
MaxTrain == 2       \* largest number of training records
MaxKeys == 2        \* largest number of records to classify
MaxSmoothing == 1   \* smoothing factors are 0..MaxSmoothing

NumAttrs == 2       \* the numAttrs every call passes; arrays hold at most NumAttrs values

Classes == {0, 1}           \* class labels of the training data
Values == {1, 2}            \* attribute values (INTEGER[] elements)
NULL == -1                  \* SQL NULL in an integer column

\* --------------------------------------------------------- sequence helpers
RECURSIVE SetToSeq(_)
SetToSeq(S) ==
    IF S = {} THEN << >>
    ELSE LET x == CHOOSE y \in S : TRUE IN << x >> \o SetToSeq(S \ {x})

RECURSIVE Flatten(_)
Flatten(ss) == IF ss = << >> THEN << >> ELSE Head(ss) \o Flatten(Tail(ss))

Range(s) == { s[i] : i \in DOMAIN s }

RECURSIVE SumSeq(_)
SumSeq(s) == IF s = << >> THEN 0 ELSE Head(s) + SumSeq(Tail(s))

\* arr[i] in PostgreSQL: NULL outside the array's bounds
Subscript(arr, i) == IF i \in DOMAIN arr THEN arr[i] ELSE NULL

\* a = b in SQL is true only when neither side is NULL
SqlEq(a, b) == a # NULL /\ b # NULL /\ a = b

\* FROM generate_series(1, n) AS attr, source : every (attr, record) pair
AttrsTimesRows(source, n) ==
    Flatten([ i \in 1..n |-> [ t \in DOMAIN source |-> [attr |-> i, rec |-> source[t]] ] ])

\* ------------------------------------------------------------------- state
VARIABLES
    trainingSource,    \* the training relation: rows (class, attrs)
    classifySource,    \* the relation to classify: rows (key, attrs)
    classPriorsDest,   \* relation {classPriorsDestName}: [kind, rows]
    featureProbsDest,  \* relation {featureProbsDestName}: [kind, rows]
    tmp_attr_counts,   \* temporary table tmp_attr_counts: [kind, rows]
    tmp_attr_values,   \* temporary table tmp_attr_values: [kind, rows]
    destName,          \* relation {destName} of the create_ call: [kind, rows]
    keys_and_nb_values,\* the rows the statement that created destName read
                       \* FROM {keys_and_prob_values} AS keys_and_nb_values
    call,              \* the create_ function called last ("none" before any)
    call_args,         \* the keyword arguments it was called with
    call_kwargs,       \* its kwargs dict as updated so far
    pc,                \* position inside create_prepared_data
    outcome            \* how the last call ended: "none", "running", "ok" or an error

vars == << trainingSource, classifySource, classPriorsDest, featureProbsDest,
           tmp_attr_counts, tmp_attr_values, destName, keys_and_nb_values,
           call, call_args, call_kwargs, pc, outcome >>

\* ---------------------------------------------------------------- sources
\* kwargs with key k set to v (dict.update of one key)
Update(kwargs, k, v) == [ x \in DOMAIN kwargs \cup {k} |-> IF x = k THEN v ELSE kwargs[x] ]

\* the rows of the relation or subquery that kwargs[param] names (defined below)
RECURSIVE Relation(_, _)

\* ------------------------------------------------- statistics (the fit step)
\* __get_attr_values_sql: SELECT DISTINCT attr, attrs[attr] AS value
__get_attr_values_sql(kwargs) ==
    SetToSeq({ [attr |-> p.attr, value |-> Subscript(p.rec.attrs, p.attr)] :
                 p \in Range(AttrsTimesRows(Relation(kwargs, "trainingSource"),
                                            kwargs.numAttrs)) })

\* __get_attr_counts_sql: count(DISTINCT attrs[attr]) ... GROUP BY attr
\* (count(DISTINCT x) skips NULL; a group exists only if it has a row)
__get_attr_counts_sql(kwargs) ==
    LET joined == AttrsTimesRows(Relation(kwargs, "trainingSource"), kwargs.numAttrs)
        groups == { p.attr : p \in Range(joined) }
    IN  SetToSeq({ [attr |-> g,
                    attr_cnt |-> Cardinality({ Subscript(p.rec.attrs, g) :
                                     p \in { q \in Range(joined) : q.attr = g } } \ {NULL})] :
                   g \in groups })

\* __get_class_priors_sql with all_cnt taken without the window: count(*) AS all_cnt
class_priors_without_window(kwargs) ==
    LET training == Relation(kwargs, "trainingSource")
        groups == SetToSeq({ training[t].class : t \in DOMAIN training })
        cnt(c) == Len(SelectSeq(training, LAMBDA r : r.class = c))
    IN  [ g \in DOMAIN groups |->
            [class |-> groups[g], class_cnt |-> cnt(groups[g]),
             all_cnt |-> cnt(groups[g])] ]

\* __get_class_priors_sql without rows to group: an aggregate over no rows still
\* returns one row, (NULL, 0, 0)
class_priors_one_row_when_empty(kwargs) ==
    LET training == Relation(kwargs, "trainingSource")
        groups == SetToSeq({ training[t].class : t \in DOMAIN training })
        cnt(c) == Len(SelectSeq(training, LAMBDA r : r.class = c))
    IN  IF training = << >>
        THEN << [class |-> NULL, class_cnt |-> 0, all_cnt |-> 0] >>
        ELSE [ g \in DOMAIN groups |->
                 [class |-> groups[g], class_cnt |-> cnt(groups[g]),
                  all_cnt |-> Len(training)] ]

\* __get_class_priors_sql: count(*) AS class_cnt, sum(count(*)) OVER () AS all_cnt
\* ... GROUP BY class
__get_class_priors_sql(kwargs) ==
    LET training == Relation(kwargs, "trainingSource")
        groups == SetToSeq({ training[t].class : t \in DOMAIN training })
        cnt(c) == Len(SelectSeq(training, LAMBDA r : r.class = c))
        total  == SumSeq([ g \in DOMAIN groups |-> cnt(groups[g]) ])
    IN  [ g \in DOMAIN groups |->
            [class |-> groups[g], class_cnt |-> cnt(groups[g]), all_cnt |-> total] ]

\* the triple_counts subquery of __get_feature_probs_sql:
\* count(*) AS cnt ... GROUP BY class, attr, value   (NULL values form a group)
triple_counts(kwargs) ==
    LET joined == AttrsTimesRows(Relation(kwargs, "trainingSource"), kwargs.numAttrs)
        key(p) == [class |-> p.rec.class, attr |-> p.attr,
                   value |-> Subscript(p.rec.attrs, p.attr)]
        groups == SetToSeq({ key(p) : p \in Range(joined) })
    IN  [ g \in DOMAIN groups |->
            [class |-> groups[g].class, attr |-> groups[g].attr,
             value |-> groups[g].value,
             cnt |-> Len(SelectSeq(joined, LAMBDA p : key(p) = groups[g]))] ]

\* the required_triples subquery: classPriorsSource CROSS JOIN attrValuesSource
required_triples(kwargs) ==
    LET classes == Relation(kwargs, "classPriorsSource")
        attr_values == Relation(kwargs, "attrValuesSource")
    IN  Flatten([ c \in DOMAIN classes |->
                    [ v \in DOMAIN attr_values |->
                        [class |-> classes[c].class,
                         attr  |-> attr_values[v].attr,
                         value |-> attr_values[v].value] ] ])

\* counted_triples with an INNER JOIN: a required triple without a count is dropped
counted_triples_inner(required, counts) ==
    LET inner(r) ==
            LET m == SelectSeq(counts, LAMBDA t : /\ SqlEq(t.class, r.class)
                                                  /\ SqlEq(t.attr, r.attr)
                                                  /\ SqlEq(t.value, r.value))
            IN  [ j \in DOMAIN m |->
                    [class |-> r.class, attr |-> r.attr, value |-> r.value,
                     cnt |-> m[j].cnt] ]
    IN  Flatten([ i \in DOMAIN required |-> inner(required[i]) ])

\* required_triples LEFT OUTER JOIN triple_counts USING (class, attr, value):
\* a required triple without a count keeps its row, with cnt NULL
counted_triples(required, counts) ==
    LET outer(r) ==
            LET m == SelectSeq(counts, LAMBDA t : /\ SqlEq(t.class, r.class)
                                                  /\ SqlEq(t.attr, r.attr)
                                                  /\ SqlEq(t.value, r.value))
            IN  IF m = << >>
                THEN << [class |-> r.class, attr |-> r.attr, value |-> r.value,
                         cnt |-> NULL] >>
                ELSE [ j \in DOMAIN m |->
                         [class |-> r.class, attr |-> r.attr, value |-> r.value,
                          cnt |-> m[j].cnt] ]
    IN  Flatten([ i \in DOMAIN required |-> outer(required[i]) ])

\* __get_feature_probs_sql: attrValuesSource and attrCountsSource default to the
\* subqueries over trainingSource; then
\*   required_triples LEFT OUTER JOIN triple_counts USING (class, attr, value)
\*   INNER JOIN attrCountsSource USING (attr), with coalesce(cnt, 0) AS cnt
__get_feature_probs_sql(kwargs) ==
    LET kw1 == IF "attrValuesSource" \in DOMAIN kwargs THEN kwargs
               ELSE Update(kwargs, "attrValuesSource", "(attr_values)")
        kw2 == IF "attrCountsSource" \in DOMAIN kw1 THEN kw1
               ELSE Update(kw1, "attrCountsSource", "(attr_counts)")
        leftJoined == counted_triples(required_triples(kw2), triple_counts(kw2))
        attr_counts == Relation(kw2, "attrCountsSource")
        inner(r) ==
            LET m == SelectSeq(attr_counts, LAMBDA a : SqlEq(a.attr, r.attr))
            IN  [ j \in DOMAIN m |->
                    [class |-> r.class, attr |-> r.attr, value |-> r.value,
                     cnt |-> IF r.cnt = NULL THEN 0 ELSE r.cnt,
                     attr_cnt |-> m[j].attr_cnt] ]
    IN  Flatten([ i \in DOMAIN leftJoined |-> inner(leftJoined[i]) ])

\* ------------------------------------------------------------- log values
RECURSIVE GCD(_, _)
GCD(a, b) == IF b = 0 THEN a ELSE GCD(b, a % b)

\* x * 10^k < y, for integers x, y >= 0 and any integer k, without forming 10^k
RECURSIVE LtPow(_, _, _)
LtPow(x, y, k) ==
    IF k = 0 THEN x < y
    ELSE IF k > 0
         THEN IF y <= 1 THEN x < y ELSE LtPow(x, ((y - 1) \div 10) + 1, k - 1)
         ELSE ~ LtPow(y, x + 1, 0 - k)

RECURSIVE Exp10(_)
Exp10(k) == IF k = 0 THEN 1 ELSE 10 * Exp10(k - 1)

NullLog == [isnull |-> TRUE, num |-> 0, den |-> 1, dec |-> 0]

\* log(num::DOUBLE PRECISION / den)
Log(num, den) ==
    LET g == GCD(num, den)
    IN  [isnull |-> FALSE, num |-> num \div g, den |-> den \div g, dec |-> 0]

\* a + b and a - b on log values (NULL if either side is)
LogAdd(a, b) ==
    IF a.isnull \/ b.isnull THEN NullLog
    ELSE LET g == GCD(a.num * b.num, a.den * b.den)
         IN  [isnull |-> FALSE, num |-> (a.num * b.num) \div g,
              den |-> (a.den * b.den) \div g, dec |-> a.dec + b.dec]

LogSub(a, b) ==
    IF a.isnull \/ b.isnull THEN NullLog
    ELSE LET g == GCD(a.num * b.den, a.den * b.num)
         IN  [isnull |-> FALSE, num |-> (a.num * b.den) \div g,
              den |-> (a.den * b.num) \div g, dec |-> a.dec - b.dec]

\* a < b and a = b on non-NULL log values
LogLt(a, b) == LtPow(a.num * b.den, b.num * a.den, b.dec - a.dec)
LogEq(a, b) == ~ LogLt(a, b) /\ ~ LogLt(b, a)

\* sum(x) and max(x) over a group: NULL inputs are skipped, NULL if none is left
RECURSIVE SumLog(_)
SumLog(s) ==
    IF s = << >> THEN NullLog
    ELSE LET rest == SumLog(Tail(s))
         IN  IF Head(s).isnull THEN rest
             ELSE IF rest.isnull THEN Head(s) ELSE LogAdd(Head(s), rest)

RECURSIVE MaxLog(_)
MaxLog(s) ==
    IF s = << >> THEN NullLog
    ELSE LET rest == MaxLog(Tail(s))
         IN  IF Head(s).isnull THEN rest
             ELSE IF rest.isnull THEN Head(s)
             ELSE IF LogLt(Head(s), rest) THEN rest ELSE Head(s)

\* --------------------------------------------------- scoring (the predict step)
\* the classify subquery: SELECT key, attr, attrs[attr] AS value
\* FROM classifySource, generate_series(1, numAttrs) AS attr
classify_attrs(kwargs) ==
    LET joined == AttrsTimesRows(Relation(kwargs, "classifySource"), kwargs.numAttrs)
    IN  [ j \in DOMAIN joined |->
            [key |-> joined[j].rec.key, attr |-> joined[j].attr,
             value |-> Subscript(joined[j].rec.attrs, joined[j].attr)] ]

\* the last condition of the WHERE clause as featureProbs.cnt > 0 alone
smoothing_guard_count_only(cnt, smoothingFactor) == cnt > 0

\* the WHERE clause without its last condition: every matching row is a term
smoothing_guard_absent(cnt, smoothingFactor) == TRUE

\* ({smoothingFactor} > 0 OR featureProbs.cnt > 0) -- prevent division by 0
smoothing_guard(cnt, smoothingFactor) == smoothingFactor > 0 \/ cnt > 0

\* FROM featureProbs, classPriors, classify WHERE ... : the rows the first SELECT
\* of __get_keys_and_prob_values_sql aggregates
matching_terms(kwargs) ==
    LET fp == Relation(kwargs, "featureProbsSource")
        cp == Relation(kwargs, "classPriorsSource")
        cl == classify_attrs(kwargs)
        all == Flatten(Flatten(
                 [ f \in DOMAIN fp |-> [ p \in DOMAIN cp |-> [ c \in DOMAIN cl |->
                     [featureProbs |-> fp[f], classPriors |-> cp[p], classify |-> cl[c]] ] ] ]))
    IN  SelectSeq(all, LAMBDA r :
            /\ SqlEq(r.featureProbs.class, r.classPriors.class)
            /\ SqlEq(r.featureProbs.attr, r.classify.attr)
            /\ SqlEq(r.featureProbs.value, r.classify.value)
            /\ smoothing_guard(r.featureProbs.cnt, kwargs.smoothingFactor))

\* the feature term with an unsmoothed denominator: log((cnt + s) / class_cnt)
feature_term_plain_denominator(r, smoothingFactor) ==
    Log(r.featureProbs.cnt + smoothingFactor, r.classPriors.class_cnt)

\* log((featureProbs.cnt + s) / (classPriors.class_cnt + s * featureProbs.attr_cnt))
feature_term(r, smoothingFactor) ==
    Log(r.featureProbs.cnt + smoothingFactor,
        r.classPriors.class_cnt + smoothingFactor * r.featureProbs.attr_cnt)

\* __get_keys_and_prob_values_sql without its second SELECT: no default rows
default_rows_absent(kwargs) == {}

\* the second SELECT of __get_keys_and_prob_values_sql: a row (key, class, NULL)
\* for every key of classifySource and every class of classPriorsSource
default_rows(kwargs) ==
    LET classify == Relation(kwargs, "classifySource")
        classes == Relation(kwargs, "classPriorsSource")
    IN  { [key |-> classify[k].key, class |-> classes[c].class,
           log_prob |-> NullLog] :
          k \in DOMAIN classify, c \in DOMAIN classes }

\* __get_keys_and_prob_values_sql: columns (key, class, log_prob); the UNION of
\* the scored groups and the default rows
__get_keys_and_prob_values_sql(kwargs) ==
    LET terms == matching_terms(kwargs)
        gkey(r) == [key |-> r.classify.key, class |-> r.classPriors.class,
                    class_cnt |-> r.classPriors.class_cnt,
                    all_cnt |-> r.classPriors.all_cnt]
        groups == { gkey(r) : r \in Range(terms) }
        scored(g) ==
            LET rows == SelectSeq(terms, LAMBDA r : gkey(r) = g)
            IN  [key |-> g.key, class |-> g.class,
                 log_prob |->
                    IF Len(rows) < kwargs.numAttrs THEN NullLog
                    ELSE LogAdd(Log(g.class_cnt, g.all_cnt),
                                SumLog([ i \in DOMAIN rows |->
                                    feature_term(rows[i], kwargs.smoothingFactor) ]))]
    IN  SetToSeq({ scored(g) : g \in groups } \cup default_rows(kwargs))

\* __get_prob_values_sql: columns (class, log_prob) for one attribute array.
\* The text binds $1 (classifyAttrColumn) and $2 (smoothingFactor); here kwargs
\* holds the values a call of the created function binds them to.
__get_prob_values_sql(kwargs) ==
    LET fp == Relation(kwargs, "featureProbsSource")
        cp == Relation(kwargs, "classPriorsSource")
        cl == [ attr \in 1..kwargs.numAttrs |->
                  [attr |-> attr, value |-> Subscript(kwargs.classifyAttrColumn, attr)] ]
        all == Flatten(Flatten(
                 [ f \in DOMAIN fp |-> [ p \in DOMAIN cp |-> [ c \in DOMAIN cl |->
                     [featureProbs |-> fp[f], classPriors |-> cp[p], classify |-> cl[c]] ] ] ]))
        terms == SelectSeq(all, LAMBDA r :
            /\ SqlEq(r.featureProbs.class, r.classPriors.class)
            /\ SqlEq(r.featureProbs.attr, r.classify.attr)
            /\ SqlEq(r.featureProbs.value, r.classify.value)
            /\ smoothing_guard(r.featureProbs.cnt, kwargs.smoothingFactor))
        gkey(r) == [class |-> r.classPriors.class,
                    class_cnt |-> r.classPriors.class_cnt,
                    all_cnt |-> r.classPriors.all_cnt]
        groups == { gkey(r) : r \in Range(terms) }
        scored(g) ==
            LET rows == SelectSeq(terms, LAMBDA r : gkey(r) = g)
            IN  [class |-> g.class,
                 log_prob |->
                    IF Len(rows) < kwargs.numAttrs THEN NullLog
                    ELSE LogAdd(Log(g.class_cnt, g.all_cnt),
                                SumLog([ i \in DOMAIN rows |->
                                    feature_term(rows[i], kwargs.smoothingFactor) ]))]
    IN  SetToSeq({ scored(g) : g \in groups } \cup
                 { [class |-> cp[c].class, log_prob |-> NullLog] : c \in DOMAIN cp })

\* a relation that was never created or was dropped has no rows to read
Relation(kwargs, param) ==
    LET name == kwargs[param]
    IN  CASE name = "trainingSource" -> trainingSource
          [] name = "classifySource" -> classifySource
          [] name = "classPriorsDest" -> classPriorsDest.rows
          [] name = "featureProbsDest" -> featureProbsDest.rows
          [] name = "tmp_attr_counts" -> tmp_attr_counts.rows
          [] name = "tmp_attr_values" -> tmp_attr_values.rows
          [] name = "(attr_values)" -> __get_attr_values_sql(kwargs)
          [] name = "(attr_counts)" -> __get_attr_counts_sql(kwargs)
          [] name = "(class_priors)" -> __get_class_priors_sql(kwargs)
          [] name = "(feature_probs)" -> __get_feature_probs_sql(kwargs)
          [] name = "(keys_and_prob_values)" -> __get_keys_and_prob_values_sql(kwargs)

\* madlib.argmax(class, log_prob): the classes whose log_prob is the largest of
\* the group's non-NULL log_prob values; none (NULL) if every log_prob is NULL
argmax(rows) ==
    LET top == MaxLog([ i \in DOMAIN rows |-> rows[i].log_prob ])
    IN  { rows[i].class : i \in { j \in DOMAIN rows :
              /\ ~ rows[j].log_prob.isnull
              /\ LogEq(rows[j].log_prob, top) } }

\* __get_classification_sql: columns (key, nb_classification, nb_log_probability)
__get_classification_sql(kwargs) ==
    LET kp == __get_keys_and_prob_values_sql(kwargs)
        groups == SetToSeq({ kp[i].key : i \in DOMAIN kp })
        rows(k) == SelectSeq(kp, LAMBDA r : r.key = k)
    IN  [ g \in DOMAIN groups |->
            [key |-> groups[g],
             nb_classification |-> argmax(rows(groups[g])),
             nb_log_probability |->
                 MaxLog([ i \in DOMAIN rows(groups[g]) |-> rows(groups[g])[i].log_prob ])] ]

\* the SELECT of create_classification with the aggregate taken over the whole
\* relation instead of the key's group
classification_select_all_rows(kp) ==
    LET groups == SetToSeq({ kp[i].key : i \in DOMAIN kp })
    IN  [ g \in DOMAIN groups |->
            [key |-> groups[g], nb_classification |-> argmax(kp)] ]

\* the SELECT of create_classification: columns (key, nb_classification)
classification_select(kp) ==
    LET groups == SetToSeq({ kp[i].key : i \in DOMAIN kp })
    IN  [ g \in DOMAIN groups |->
            [key |-> groups[g],
             nb_classification |->
                 argmax(SelectSeq(kp, LAMBDA r : r.key = groups[g]))] ]

\* ------------------------------------------------------------ probabilities
\* a DOUBLE PRECISION that is not a logarithm: num / den, or NULL
NullNum == [isnull |-> TRUE, num |-> 0, den |-> 1]
\* the value of an expression that raised division_by_zero
DivisionByZero == [isnull |-> FALSE, num |-> 1, den |-> 0]

Num(num, den) ==
    LET g == GCD(num, den)
    IN  [isnull |-> FALSE, num |-> num \div g, den |-> den \div g]

NumAdd(a, b) == Num(a.num * b.den + b.num * a.den, a.den * b.den)

NumDiv(a, b) ==
    IF a.isnull \/ b.isnull THEN NullNum
    ELSE IF b.num = 0 THEN DivisionByZero
    ELSE Num(a.num * b.den, a.den * b.num)

RECURSIVE SumNum(_)
SumNum(s) ==
    IF s = << >> THEN NullNum
    ELSE LET rest == SumNum(Tail(s))
         IN  IF Head(s).isnull THEN rest
             ELSE IF rest.isnull THEN Head(s) ELSE NumAdd(Head(s), rest)

\* the underflow floor: a distance below -300 counts as probability 0
FloorExponent == 300

\* CASE WHEN d < -300 THEN 0 ELSE pow(10, d) END, for the log value d
floor_pow(d) ==
    IF d.isnull THEN NullNum
    ELSE IF LtPow(d.num, d.den, FloorExponent - d.dec) THEN Num(0, 1)
    ELSE IF d.dec >= 0 THEN Num(d.num, d.den * Exp10(d.dec))
    ELSE Num(d.num * Exp10(0 - d.dec), d.den)

\* the inner SELECT of create_bayes_probabilities: (key, class, nb_prob) with
\* nb_prob the exponentiated distance of max(log_prob) to the key's largest
unnormalized_probs(kp) ==
    LET groups == SetToSeq({ [key |-> kp[i].key, class |-> kp[i].class] : i \in DOMAIN kp })
        m(g) == LET rows == SelectSeq(kp, LAMBDA r : r.key = g.key /\ r.class = g.class)
                IN  MaxLog([ i \in DOMAIN rows |-> rows[i].log_prob ])
        grouped == [ g \in DOMAIN groups |->
                       [key |-> groups[g].key, class |-> groups[g].class,
                        max_log_prob |-> m(groups[g])] ]
        window(k) == LET part == SelectSeq(grouped, LAMBDA r : r.key = k)
                     IN  MaxLog([ i \in DOMAIN part |-> part[i].max_log_prob ])
    IN  [ g \in DOMAIN grouped |->
            [key |-> grouped[g].key, class |-> grouped[g].class,
             nb_prob |-> floor_pow(LogSub(grouped[g].max_log_prob,
                                          window(grouped[g].key)))] ]

\* the SELECT of create_bayes_probabilities with sum(nb_prob) OVER (), a window
\* that is not partitioned by key
bayes_probabilities_select_one_window(kp) ==
    LET inner == unnormalized_probs(kp)
        total == SumNum([ i \in DOMAIN inner |-> inner[i].nb_prob ])
        rows == [ i \in DOMAIN inner |->
                    [key |-> inner[i].key, class |-> inner[i].class,
                     nb_prob |-> NumDiv(inner[i].nb_prob, total)] ]
    IN  SortSeq(rows, LAMBDA a, b : a.key < b.key \/ (a.key = b.key /\ a.class < b.class))

\* the SELECT of create_bayes_probabilities: columns (key, class, nb_prob),
\* nb_prob / sum(nb_prob) OVER (PARTITION BY key) ... ORDER BY key, class
bayes_probabilities_select(kp) ==
    LET inner == unnormalized_probs(kp)
        total(k) == LET part == SelectSeq(inner, LAMBDA r : r.key = k)
                    IN  SumNum([ i \in DOMAIN part |-> part[i].nb_prob ])
        rows == [ i \in DOMAIN inner |->
                    [key |-> inner[i].key, class |-> inner[i].class,
                     nb_prob |-> NumDiv(inner[i].nb_prob, total(inner[i].key))] ]
    IN  SortSeq(rows, LAMBDA a, b : a.key < b.key \/ (a.key = b.key /\ a.class < b.class))

\* the function create_classification_function creates, called with
\* (inAttributes, inSmoothingFactor): SELECT madlib.argmax(class, log_prob)
classification_function(kwargs, inAttributes, inSmoothingFactor) ==
    argmax(__get_prob_values_sql(
        Update(Update(kwargs, "classifyAttrColumn", inAttributes),
               "smoothingFactor", inSmoothingFactor)))

\* ----------------------------------------------------- optional parameters
\* Laplacian smoothing
DefaultSmoothingFactor == 1

\* __init_prepared_data with an unconditional kwargs.update(smoothingFactor = 1)
init_prepared_data_unconditional(kwargs) ==
    LET kw1 == IF "classPriorsSource" \in DOMAIN kwargs THEN kwargs
               ELSE Update(kwargs, "classPriorsSource", "(class_priors)")
        kw2 == IF "featureProbsSource" \in DOMAIN kw1 THEN kw1
               ELSE Update(kw1, "featureProbsSource", "(feature_probs)")
    IN  Update(kw2, "smoothingFactor", DefaultSmoothingFactor)

\* __init_prepared_data: fill in classPriorsSource, featureProbsSource and
\* smoothingFactor where the caller gave none
__init_prepared_data(kwargs) ==
    LET kw1 == IF "classPriorsSource" \in DOMAIN kwargs THEN kwargs
               ELSE Update(kwargs, "classPriorsSource", "(class_priors)")
        kw2 == IF "featureProbsSource" \in DOMAIN kw1 THEN kw1
               ELSE Update(kw1, "featureProbsSource", "(feature_probs)")
    IN  IF "smoothingFactor" \in DOMAIN kw2 THEN kw2
        ELSE Update(kw2, "smoothingFactor", DefaultSmoothingFactor)

NoRelation == [kind |-> "NONE", rows |-> << >>]
NoArgs == [numAttrs |-> NumAttrs]

\* attribute arrays: up to NumAttrs values; a shorter array reads NULL beyond its end
Arrays(minLen) == UNION { [1..n -> Values] : n \in minLen..NumAttrs }

RECURSIVE Code(_)
Code(arr) == IF arr = << >> THEN 0 ELSE Head(arr) + 4 * Code(Tail(arr))

\* a relation is a bag: one representative per bag, rows in non-decreasing order
TrainingRecords == [class : Classes, attrs : Arrays(0)]
Rank(r) == r.class + 2 * Code(r.attrs)
TrainingSets ==
    { s \in UNION { [1..n -> TrainingRecords] : n \in 0..MaxTrain } :
        \A i \in 1..(Len(s) - 1) : Rank(s[i]) <= Rank(s[i + 1]) }

\* the key column is unique: record k has key k; keys are only names, so one
\* representative per assignment of keys to the same bag of arrays
ClassifySets ==
    UNION { { [ k \in 1..n |-> [key |-> k, attrs |-> a[k]] ] :
                a \in { b \in [1..n -> Arrays(NumAttrs)] :
                          \A i \in 1..(n - 1) : Code(b[i]) <= Code(b[i + 1]) } } :
            n \in 0..MaxKeys }

Init ==
    /\ trainingSource \in TrainingSets
    /\ classifySource \in ClassifySets
    /\ classPriorsDest = NoRelation
    /\ featureProbsDest = NoRelation
    /\ tmp_attr_counts = NoRelation
    /\ tmp_attr_values = NoRelation
    /\ destName = NoRelation
    /\ keys_and_nb_values = << >>
    /\ call = "none"
    /\ call_args = NoArgs
    /\ call_kwargs = NoArgs
    /\ pc = "idle"
    /\ outcome = "none"

data == << trainingSource, classifySource >>
prepared == << classPriorsDest, featureProbsDest, tmp_attr_counts, tmp_attr_values >>

\* ALTER TABLE ... ADD PRIMARY KEY (cols): every key column non-NULL, no key twice
PrimaryKeyOk(rows, cols) ==
    /\ \A i \in DOMAIN rows : \A c \in cols : rows[i][c] # NULL
    /\ \A i, j \in DOMAIN rows :
          (\A c \in cols : rows[i][c] = rows[j][c]) => i = j

\* the optional whatToCreate argument, given or not
WithWhatToCreate(a) ==
    {a} \cup { Update(a, "whatToCreate", w) : w \in {"TABLE", "VIEW"} }

\* ------------------------------------------------------ create_prepared_data
\* lines 418-440: read kwargs['whatToCreate']; for 'TABLE' create, key and
\* analyze the two temporary tables and make them the attr sources
create_prepared_data_begin ==
    /\ call = "none" /\ pc = "idle"
    /\ \E a \in WithWhatToCreate([trainingSource |-> "trainingSource",
                                  numAttrs |-> NumAttrs,
                                  classPriorsDestName |-> "classPriorsDest",
                                  featureProbsDestName |-> "featureProbsDest"]) :
         /\ call' = "create_prepared_data"
         /\ call_args' = a
         /\ IF "whatToCreate" \notin DOMAIN a
            THEN /\ outcome' = "KeyError"
                 /\ call_kwargs' = a
                 /\ UNCHANGED << pc, prepared >>
            ELSE IF a.whatToCreate = "TABLE"
            THEN LET counts == __get_attr_counts_sql(a)
                     values == __get_attr_values_sql(a)
                 IN  IF PrimaryKeyOk(counts, {"attr"})
                        /\ PrimaryKeyOk(values, {"attr", "value"})
                     THEN /\ tmp_attr_counts' = [kind |-> "TABLE", rows |-> counts]
                          /\ tmp_attr_values' = [kind |-> "TABLE", rows |-> values]
                          /\ call_kwargs' = Update(Update(a, "attrValuesSource",
                                                     "tmp_attr_values"),
                                              "attrCountsSource", "tmp_attr_counts")
                          /\ pc' = "class_priors"
                          /\ outcome' = "running"
                          /\ UNCHANGED << classPriorsDest, featureProbsDest >>
                     ELSE /\ outcome' = "IntegrityError"
                          /\ call_kwargs' = a
                          /\ UNCHANGED << pc, prepared >>
            ELSE /\ call_kwargs' = a
                 /\ pc' = "class_priors"
                 /\ outcome' = "running"
                 /\ UNCHANGED prepared
    /\ UNCHANGED << data, destName, keys_and_nb_values >>

\* a failed statement aborts the call; the database rolls back what it created
Abort(error) ==
    /\ outcome' = error
    /\ pc' = "idle"
    /\ classPriorsDest' = NoRelation
    /\ featureProbsDest' = NoRelation
    /\ tmp_attr_counts' = NoRelation
    /\ tmp_attr_values' = NoRelation
    /\ UNCHANGED call_kwargs

\* lines 443-460: CREATE {whatToCreate} {classPriorsDestName} AS class priors;
\* for 'TABLE' add the primary key; classPriorsSource := classPriorsDestName
create_prepared_data_class_priors ==
    /\ pc = "class_priors"
    /\ LET rows == __get_class_priors_sql(call_kwargs)
       IN  IF call_kwargs.whatToCreate = "TABLE" /\ ~ PrimaryKeyOk(rows, {"class"})
           THEN Abort("IntegrityError")
           ELSE /\ classPriorsDest' = [kind |-> call_kwargs.whatToCreate, rows |-> rows]
                /\ call_kwargs' = Update(call_kwargs, "classPriorsSource",
                                    call_kwargs.classPriorsDestName)
                /\ pc' = "feature_probs"
                /\ UNCHANGED << featureProbsDest, tmp_attr_counts, tmp_attr_values,
                                outcome >>
    /\ UNCHANGED << data, destName, keys_and_nb_values, call, call_args >>

\* lines 461-468: CREATE {whatToCreate} {featureProbsDestName} AS feature probs
create_prepared_data_feature_probs ==
    /\ pc = "feature_probs"
    /\ featureProbsDest' = [kind |-> call_kwargs.whatToCreate,
                            rows |-> __get_feature_probs_sql(call_kwargs)]
    /\ pc' = "finish"
    /\ UNCHANGED << data, classPriorsDest, tmp_attr_counts, tmp_attr_values,
                    destName, keys_and_nb_values, call, call_args, call_kwargs,
                    outcome >>

\* lines 469-475 without the two DROP TABLE statements
create_prepared_data_finish_without_drop ==
    /\ pc = "finish"
    /\ IF call_kwargs.whatToCreate = "TABLE"
          /\ ~ PrimaryKeyOk(featureProbsDest.rows, {"class", "attr", "value"})
       THEN Abort("IntegrityError")
       ELSE /\ pc' = "idle"
            /\ outcome' = "ok"
            /\ UNCHANGED << prepared, call_kwargs >>
    /\ UNCHANGED << data, destName, keys_and_nb_values, call, call_args >>

\* lines 469-475: for 'TABLE' add the primary key and drop the temporary tables
create_prepared_data_finish ==
    /\ pc = "finish"
    /\ IF call_kwargs.whatToCreate = "TABLE"
       THEN IF PrimaryKeyOk(featureProbsDest.rows, {"class", "attr", "value"})
            THEN /\ tmp_attr_counts' = NoRelation
                 /\ tmp_attr_values' = NoRelation
                 /\ pc' = "idle"
                 /\ outcome' = "ok"
                 /\ UNCHANGED << classPriorsDest, featureProbsDest, call_kwargs >>
            ELSE Abort("IntegrityError")
       ELSE /\ pc' = "idle"
            /\ outcome' = "ok"
            /\ UNCHANGED << prepared, call_kwargs >>
    /\ UNCHANGED << data, destName, keys_and_nb_values, call, call_args >>

\* --------------------------------------------------------- the scoring calls
\* the optional smoothingFactor argument, given or not
WithSmoothingFactor(a) ==
    {a} \cup { Update(a, "smoothingFactor", f) : f \in 0..MaxSmoothing }

\* the two documented sets of arguments: either classPriorsSource and
\* featureProbsSource (the relations create_prepared_data made), or the raw
\* training data, left to __init_prepared_data
WithStatistics(a) ==
    { Update(a, "trainingSource", "trainingSource") } \cup
    IF featureProbsDest.kind # "NONE"
    THEN { Update(Update(a, "classPriorsSource", "classPriorsDest"),
                  "featureProbsSource", "featureProbsDest") }
    ELSE {}

ScoringArgs ==
    UNION { UNION { WithStatistics(b) : b \in WithSmoothingFactor(a) } :
            a \in WithWhatToCreate([numAttrs |-> NumAttrs,
                                    classifySource |-> "classifySource"]) }

\* a session: at most one create_prepared_data call, then at most one scoring call
CanScore ==
    \/ call = "none"
    \/ call = "create_prepared_data" /\ outcome = "ok"

\* lines 520-523 and 601-604, the same in both functions
scoring_kwargs(a) ==
    Update(__init_prepared_data(a), "keys_and_prob_values", "(keys_and_prob_values)")

\* create_classification: CREATE {whatToCreate} {destName} AS the argmax per key
create_classification ==
    /\ CanScore
    /\ \E a \in ScoringArgs :
         LET kw == scoring_kwargs(a)
             kp == Relation(kw, "keys_and_prob_values")
         IN  /\ call' = "create_classification"
             /\ call_args' = a
             /\ call_kwargs' = kw
             /\ IF "whatToCreate" \in DOMAIN kw
                THEN /\ destName' = [kind |-> kw.whatToCreate,
                                     rows |-> classification_select(kp)]
                     /\ keys_and_nb_values' = kp
                     /\ outcome' = "ok"
                ELSE /\ outcome' = "KeyError"
                     /\ UNCHANGED << destName, keys_and_nb_values >>
    /\ UNCHANGED << data, prepared, pc >>

\* create_bayes_probabilities: CREATE {whatToCreate} {destName} AS the
\* normalized probabilities per key and class
create_bayes_probabilities ==
    /\ CanScore
    /\ \E a \in ScoringArgs :
         LET kw == scoring_kwargs(a)
             kp == Relation(kw, "keys_and_prob_values")
         IN  /\ call' = "create_bayes_probabilities"
             /\ call_args' = a
             /\ call_kwargs' = kw
             /\ IF "whatToCreate" \in DOMAIN kw
                THEN /\ destName' = [kind |-> kw.whatToCreate,
                                     rows |-> bayes_probabilities_select(kp)]
                     /\ keys_and_nb_values' = kp
                     /\ outcome' = "ok"
                ELSE /\ outcome' = "KeyError"
                     /\ UNCHANGED << destName, keys_and_nb_values >>
    /\ UNCHANGED << data, prepared, pc >>

\* create_classification_function: CREATE FUNCTION {destName} (inAttributes,
\* inSmoothingFactor) over the text of __get_prob_values_sql
create_classification_function ==
    /\ CanScore
    /\ \E a \in WithStatistics([numAttrs |-> NumAttrs]) :
         /\ call' = "create_classification_function"
         /\ call_args' = a
         /\ call_kwargs' = Update(__init_prepared_data(
                                    Update(Update(a, "classifyAttrColumn", "$1"),
                                           "smoothingFactor", "$2")),
                                  "keys_and_prob_values", "(prob_values)")
         /\ destName' = [kind |-> "FUNCTION", rows |-> << >>]
         /\ outcome' = "ok"
    /\ UNCHANGED << data, prepared, keys_and_nb_values, pc >>

Next ==
    \/ create_prepared_data_begin
    \/ create_prepared_data_class_priors
    \/ create_prepared_data_feature_probs
    \/ create_prepared_data_finish
    \/ create_classification
    \/ create_bayes_probabilities
    \/ create_classification_function

Spec == Init /\ [][Next]_vars

\* ------------------------------------------- the statement on any log values
\* The counts of a small training set never put two log_prob values 300 apart.
\* The SELECT of create_bayes_probabilities is therefore also run on relations
\* (key, class, log_prob) with log values of any distance: exponents far apart
\* or close, so that no power of ten computed is beyond the integers.
LogValues ==
    {NullLog} \cup
    { [isnull |-> FALSE, num |-> m[1], den |-> m[2], dec |-> d] :
        m \in { <<1, 1>>, <<1, 2>> }, d \in {0, 1, 400} }

\* relations shaped as __get_keys_and_prob_values_sql returns them: the default
\* row (key, class, NULL) of every pair, and the scored row of the scored pairs
KeysAndProbValues ==
    { SetToSeq({ [key |-> k, class |-> c, log_prob |-> NullLog] :
                   k \in 1..MaxKeys, c \in Classes }
               \cup
               { [key |-> k, class |-> c, log_prob |-> f[k][c]] :
                   k \in 1..MaxKeys, c \in Classes }) :
        f \in [1..MaxKeys -> [Classes -> LogValues]] }

InitSelect ==
    /\ trainingSource = << >>
    /\ classifySource = << >>
    /\ classPriorsDest = NoRelation
    /\ featureProbsDest = NoRelation
    /\ tmp_attr_counts = NoRelation
    /\ tmp_attr_values = NoRelation
    /\ destName = NoRelation
    /\ keys_and_nb_values \in KeysAndProbValues
    /\ call = "none"
    /\ call_args = NoArgs
    /\ call_kwargs = NoArgs
    /\ pc = "idle"
    /\ outcome = "none"

\* lines 605-626: CREATE {whatToCreate} {destName} AS SELECT key, class,
\* nb_prob / sum(nb_prob) OVER (PARTITION BY key) ... FROM keys_and_nb_values
bayes_probabilities_statement ==
    /\ call = "none"
    /\ \E whatToCreate \in {"TABLE", "VIEW"} :
         destName' = [kind |-> whatToCreate,
                      rows |-> bayes_probabilities_select(keys_and_nb_values)]
    /\ call' = "create_bayes_probabilities"
    /\ outcome' = "ok"
    /\ UNCHANGED << data, prepared, keys_and_nb_values, call_args, call_kwargs, pc >>

NextSelect == bayes_probabilities_statement

SpecSelect == InitSelect /\ [][NextSelect]_vars


\* =================================================================== claims
\* What the training data says, counted directly from trainingSource.
ObservedClasses == { trainingSource[t].class : t \in DOMAIN trainingSource }
ObservedValues(i) ==
    { Subscript(trainingSource[t].attrs, i) : t \in DOMAIN trainingSource } \ {NULL}
ClassCount(c) ==
    Cardinality({ t \in DOMAIN trainingSource : trainingSource[t].class = c })
TrainingCount(c, i, a) ==
    Cardinality({ t \in DOMAIN trainingSource :
                    /\ trainingSource[t].class = c
                    /\ Subscript(trainingSource[t].attrs, i) = a })

ScoringCalls == {"create_classification", "create_bayes_probabilities"}

\* the feature-count relation a state holds: the one create_prepared_data
\* created, or the subquery a scoring call on the raw training data reads
FeatureProbsBuilt ==
    \/ featureProbsDest.kind # "NONE"
    \/ call \in ScoringCalls /\ call_kwargs.featureProbsSource = "(feature_probs)"
FeatureProbsRows ==
    IF featureProbsDest.kind # "NONE" THEN featureProbsDest.rows
    ELSE Relation(call_kwargs, "featureProbsSource")

RowsOf(rows, c, i, a) ==
    { j \in DOMAIN rows : rows[j].class = c /\ rows[j].attr = i /\ rows[j].value = a }

\* C1: the feature-count relation holds exactly one row for every (c, i, a) with
\* c an observed class, i in 1..numAttrs and a a value observed for attribute i
\* in any class; its cnt is the number of training records of class c whose
\* attribute i is a, so it is 0, not missing, when a never occurs with c.
C1_RequiredTriples ==
    FeatureProbsBuilt =>
        \A c \in ObservedClasses : \A i \in 1..NumAttrs : \A a \in ObservedValues(i) :
            LET m == RowsOf(FeatureProbsRows, c, i, a)
            IN  /\ Cardinality(m) = 1
                /\ \A j \in m : FeatureProbsRows[j].cnt = TrainingCount(c, i, a)

\* a feature-count relation with a zero-count row for an observed value
C1_Witness ==
    /\ featureProbsDest.kind # "NONE"
    /\ \E c \in ObservedClasses : \E i \in 1..NumAttrs : \E a \in ObservedValues(i) :
          /\ TrainingCount(c, i, a) = 0
          /\ \E j \in RowsOf(featureProbsDest.rows, c, i, a) :
                featureProbsDest.rows[j].cnt = 0


\* ---- scoring: what a scoring call read, and what the claims expect of it
Scored == call \in ScoringCalls /\ outcome = "ok"
ScoringFeatureProbs == Relation(call_kwargs, "featureProbsSource")
ScoringClassPriors == Relation(call_kwargs, "classPriorsSource")

\* the rows of (class c, attribute i, value a) in a feature-count relation
Matches(fp, c, i, a) ==
    { j \in DOMAIN fp : fp[j].class = c /\ fp[j].attr = i /\ a # NULL /\ fp[j].value = a }
\* those of them that the smoothing factor s lets be scored
Scorable(fp, c, i, a, s) ==
    { j \in Matches(fp, c, i, a) : s > 0 \/ fp[j].cnt > 0 }

MatchCount(fp, c, attrs) ==
    SumSeq([ i \in 1..NumAttrs |-> Cardinality(Matches(fp, c, i, Subscript(attrs, i))) ])
ScorableCount(fp, c, attrs, s) ==
    SumSeq([ i \in 1..NumAttrs |->
               Cardinality(Scorable(fp, c, i, Subscript(attrs, i), s)) ])

\* log(class_cnt / all_cnt) plus one feature term per attribute position, for
\* the class-priors row p
ExpectedLogProb(fp, p, attrs, s) ==
    LogAdd(Log(p.class_cnt, p.all_cnt),
           SumLog([ i \in 1..NumAttrs |->
                      LET j == CHOOSE m \in Matches(fp, p.class, i, Subscript(attrs, i)) : TRUE
                      IN  Log(fp[j].cnt + s, p.class_cnt + s * fp[j].attr_cnt) ]))

\* rows is null throughout when n < numAttrs; otherwise it has a value, and its
\* values are the expected log_prob
NullOrExpected(rows, n, fp, p, attrs, s) ==
    IF n < NumAttrs
    THEN \A r \in Range(rows) : r.log_prob.isnull
    ELSE /\ \E r \in Range(rows) : ~ r.log_prob.isnull
         /\ \A r \in Range(rows) :
               r.log_prob.isnull \/ LogEq(r.log_prob, ExpectedLogProb(fp, p, attrs, s))

PairRows(kp, k, c) == SelectSeq(kp, LAMBDA r : r.key = k /\ r.class = c)
ClassRows(rows, c) == SelectSeq(rows, LAMBDA r : r.class = c)

\* the rows the function made by create_classification_function computes when
\* called with (attrs, s)
ProbValues(attrs, s) ==
    __get_prob_values_sql(Update(Update(call_kwargs, "classifyAttrColumn", attrs),
                                 "smoothingFactor", s))
FunctionCreated == call = "create_classification_function" /\ outcome = "ok"

\* C2 as stated: for every record (k, attrs) to classify and every class c the
\* log_prob is null if fewer than numAttrs feature-count rows match (c, i,
\* attrs[i]) for i in 1..numAttrs; otherwise it is log(class_cnt / all_cnt)
\* plus numAttrs feature terms, one per attribute position.
C2_LogProbOfMatchingRows ==
    Scored =>
        \A t \in DOMAIN classifySource : \A p \in Range(ScoringClassPriors) :
            NullOrExpected(PairRows(keys_and_nb_values, classifySource[t].key, p.class),
                           MatchCount(ScoringFeatureProbs, p.class, classifySource[t].attrs),
                           ScoringFeatureProbs, p, classifySource[t].attrs,
                           call_kwargs.smoothingFactor)

\* C2 as amended: the rows that count are the matching rows that can be scored,
\* those with smoothingFactor > 0 or cnt > 0.  With fewer than numAttrs of them
\* the log_prob is null; otherwise it is log(class_cnt / all_cnt) plus numAttrs
\* feature terms log((cnt + s) / (class_cnt + s * attr_cnt)), one per attribute
\* position.  The same holds of the rows __get_prob_values_sql computes for
\* one attribute array.
C2_LogProbOfScorableRows ==
    /\ Scored =>
          \A t \in DOMAIN classifySource : \A p \in Range(ScoringClassPriors) :
              NullOrExpected(PairRows(keys_and_nb_values, classifySource[t].key, p.class),
                             ScorableCount(ScoringFeatureProbs, p.class,
                                           classifySource[t].attrs,
                                           call_kwargs.smoothingFactor),
                             ScoringFeatureProbs, p, classifySource[t].attrs,
                             call_kwargs.smoothingFactor)
    /\ FunctionCreated =>
          \A attrs \in Arrays(0) : \A s \in 0..MaxSmoothing :
              \A p \in Range(ScoringClassPriors) :
                  NullOrExpected(ClassRows(ProbValues(attrs, s), p.class),
                                 ScorableCount(ScoringFeatureProbs, p.class, attrs, s),
                                 ScoringFeatureProbs, p, attrs, s)

\* a record scored with s = 0 that has a value for one class and, for another
\* class, numAttrs matching rows of which one has cnt = 0
C2_Witness ==
    /\ Scored /\ call_kwargs.smoothingFactor = 0
    /\ \E t \in DOMAIN classifySource :
          /\ \E r \in Range(keys_and_nb_values) :
                r.key = classifySource[t].key /\ ~ r.log_prob.isnull
          /\ \E p \in Range(ScoringClassPriors) :
                /\ MatchCount(ScoringFeatureProbs, p.class, classifySource[t].attrs)
                      = NumAttrs
                /\ ScorableCount(ScoringFeatureProbs, p.class,
                                 classifySource[t].attrs, 0) < NumAttrs
                /\ \A r \in Range(PairRows(keys_and_nb_values,
                                           classifySource[t].key, p.class)) :
                      r.log_prob.isnull

\* C3: for every key of the classify source and every class of the class priors
\* the output (key, class, log_prob) has at least one row of that pair, whatever
\* the training data and the smoothing factor, and the rows of a pair that
\* cannot be scored have a null log_prob.
C3_EveryPairHasARow ==
    /\ Scored =>
          \A t \in DOMAIN classifySource : \A p \in Range(ScoringClassPriors) :
              LET rows == PairRows(keys_and_nb_values, classifySource[t].key, p.class)
              IN  /\ rows # << >>
                  /\ ScorableCount(ScoringFeatureProbs, p.class,
                                   classifySource[t].attrs,
                                   call_kwargs.smoothingFactor) < NumAttrs
                        => \A r \in Range(rows) : r.log_prob.isnull
    /\ FunctionCreated =>
          \A attrs \in Arrays(0) : \A s \in 0..MaxSmoothing :
              \A p \in Range(ScoringClassPriors) :
                  ClassRows(ProbValues(attrs, s), p.class) # << >>

\* two keys and two classes, smoothing on: one key has a value unseen in
\* training, so its pairs have only their null rows; the other key is scored
C3_Witness ==
    /\ Scored /\ call_kwargs.smoothingFactor > 0
    /\ Len(classifySource) = 2 /\ Cardinality(Range(ScoringClassPriors)) = 2
    /\ \E k \in 1..2 :
          /\ \A r \in Range(keys_and_nb_values) : r.key = k => r.log_prob.isnull
          /\ \A c \in ObservedClasses : PairRows(keys_and_nb_values, k, c) # << >>
    /\ \E r \in Range(keys_and_nb_values) : ~ r.log_prob.isnull

\* the log_prob of (k, c): the value among the pair's rows, null if none
LogProbOf(kp, k, c) ==
    LET rows == PairRows(kp, k, c)
    IN  MaxLog([ i \in DOMAIN rows |-> rows[i].log_prob ])

\* the classes of key k with a non-null log_prob that no class of k exceeds
BestClasses(kp, k) ==
    LET classes == { r.class : r \in Range(kp) }
    IN  { c \in classes :
            /\ ~ LogProbOf(kp, k, c).isnull
            /\ \A d \in classes :
                  \/ LogProbOf(kp, k, d).isnull
                  \/ ~ LogLt(LogProbOf(kp, k, c), LogProbOf(kp, k, d)) }

Pow10(d) == Num(d.num, d.den * Exp10(d.dec))

\* x < y - 300 on log values
Below300(x, y) == LogLt(x, [y EXCEPT !.dec = y.dec + 300])

\* the largest log_prob of key k and the unnormalized probability of (k, c)
KeyMax(kp, k) ==
    LET rows == SelectSeq(kp, LAMBDA r : r.key = k)
    IN  MaxLog([ i \in DOMAIN rows |-> rows[i].log_prob ])
Unnormalized(kp, k, c) ==
    IF Below300(LogProbOf(kp, k, c), KeyMax(kp, k)) THEN Num(0, 1)
    ELSE Pow10(LogSub(LogProbOf(kp, k, c), KeyMax(kp, k)))

\* C5: create_bayes_probabilities gives every (key, class) one row.  For a key
\* with a non-null log_prob the nb_prob of its classes sum to 1, the nb_prob of
\* a class being 10^(log_prob - the key's largest log_prob), taken as 0 when
\* that difference is below -300, divided by the sum of these over the key's
\* classes (null for a class without log_prob); for a key without any non-null
\* log_prob every nb_prob is null.
C5_ProbabilitiesSumToOne ==
    (call = "create_bayes_probabilities" /\ outcome = "ok") =>
        LET kp == keys_and_nb_values
            out == destName.rows
            classes == { r.class : r \in Range(kp) }
            scored(k) == { c \in classes : ~ LogProbOf(kp, k, c).isnull }
            cs(k) == SetToSeq(scored(k))
            total(k) == SumNum([ i \in DOMAIN cs(k) |-> Unnormalized(kp, k, cs(k)[i]) ])
            of(k) == SelectSeq(out, LAMBDA r : r.key = k)
        IN  \A k \in { r.key : r \in Range(kp) } :
              /\ \A c \in classes : Len(PairRows(out, k, c)) = 1
              /\ \A r \in Range(of(k)) :
                    IF r.class \in scored(k)
                    THEN r.nb_prob = NumDiv(Unnormalized(kp, k, r.class), total(k))
                    ELSE r.nb_prob.isnull
              /\ scored(k) # {} =>
                    SumNum([ i \in DOMAIN of(k) |-> of(k)[i].nb_prob ]) = Num(1, 1)

\* one key has a class more than 300 below its largest log_prob, which gets
\* probability 0, and a class that gets a part of 1; another key has no
\* log_prob at all
C5_Witness ==
    /\ call = "create_bayes_probabilities" /\ outcome = "ok"
    /\ \E k \in { r.key : r \in Range(keys_and_nb_values) } :
          /\ \E c \in Classes :
                /\ ~ LogProbOf(keys_and_nb_values, k, c).isnull
                /\ Below300(LogProbOf(keys_and_nb_values, k, c),
                            KeyMax(keys_and_nb_values, k))
                /\ \E r \in Range(destName.rows) :
                      r.key = k /\ r.class = c /\ r.nb_prob = Num(0, 1)
          /\ \E r \in Range(destName.rows) : r.key = k /\ r.nb_prob = Num(1, 1)
    /\ \E k \in { r.key : r \in Range(keys_and_nb_values) } :
          \A r \in Range(destName.rows) : r.key = k => r.nb_prob.isnull

\* a zero-count row among the rows that match the record attrs for class c
HasZeroCount(fp, c, attrs) ==
    \E i \in 1..NumAttrs : \E j \in Matches(fp, c, i, Subscript(attrs, i)) : fp[j].cnt = 0

\* C6: with s = 0 a feature term of count 0 is never fed to the logarithm: no
\* matching term has cnt + s = 0 or a zero denominator, and a (key, class) pair
\* whose record has a zero-count value gets a null log_prob; with s > 0 the
\* zero-count term is a matching term, and the pair is scored.
C6_ZeroCountTerms ==
    /\ Scored =>
          LET s == call_kwargs.smoothingFactor
              fp == ScoringFeatureProbs
              terms == matching_terms(call_kwargs)
          IN  /\ \A r \in Range(terms) :
                    /\ r.featureProbs.cnt + s > 0
                    /\ r.classPriors.class_cnt + s * r.featureProbs.attr_cnt > 0
              /\ \A t \in DOMAIN classifySource : \A p \in Range(ScoringClassPriors) :
                    LET attrs == classifySource[t].attrs
                        rows == PairRows(keys_and_nb_values, classifySource[t].key, p.class)
                    IN  HasZeroCount(fp, p.class, attrs) =>
                          IF s = 0
                          THEN \A r \in Range(rows) : r.log_prob.isnull
                          ELSE /\ \A i \in 1..NumAttrs :
                                    \A j \in Matches(fp, p.class, i, Subscript(attrs, i)) :
                                       \E r \in Range(terms) :
                                          /\ r.featureProbs = fp[j]
                                          /\ r.classPriors = p
                                          /\ r.classify.key = classifySource[t].key
                               /\ MatchCount(fp, p.class, attrs) = NumAttrs =>
                                    \E r \in Range(rows) : ~ r.log_prob.isnull
    /\ FunctionCreated =>
          \A attrs \in Arrays(0) : \A p \in Range(ScoringClassPriors) :
              HasZeroCount(ScoringFeatureProbs, p.class, attrs) =>
                  /\ \A r \in Range(ClassRows(ProbValues(attrs, 0), p.class)) :
                        r.log_prob.isnull
                  /\ MatchCount(ScoringFeatureProbs, p.class, attrs) = NumAttrs =>
                        \E r \in Range(ClassRows(ProbValues(attrs, 1), p.class)) :
                           ~ r.log_prob.isnull

\* scored with s = 0: a record has a value never seen with one class, which is
\* eliminated for it, while another class of the same record is scored
C6_Witness ==
    /\ Scored /\ call_kwargs.smoothingFactor = 0
    /\ \E t \in DOMAIN classifySource :
          /\ \E p \in Range(ScoringClassPriors) :
                /\ HasZeroCount(ScoringFeatureProbs, p.class, classifySource[t].attrs)
                /\ LogProbOf(keys_and_nb_values, classifySource[t].key, p.class).isnull
          /\ \E p \in Range(ScoringClassPriors) :
                ~ LogProbOf(keys_and_nb_values, classifySource[t].key, p.class).isnull

\* a call that computes class priors and feature counts from trainingSource has ended
FitEnded ==
    /\ call # "none" /\ pc = "idle"
    /\ "trainingSource" \in DOMAIN call_args

\* the relations the last call was to create
Created ==
    IF call = "create_prepared_data" THEN {classPriorsDest, featureProbsDest}
    ELSE {destName}

C8_WhatToCreateDefaultsToView ==
    (/\ call \in ScoringCalls \cup {"create_prepared_data"}
     /\ pc = "idle"
     /\ "whatToCreate" \notin DOMAIN call_args) =>
        /\ outcome = "ok"
        /\ \A r \in Created : r.kind = "VIEW"


\* the arguments of the last call with the statistics left out and the raw
\* training data given instead
RawArgs ==
    [ k \in (DOMAIN call_args \ {"classPriorsSource", "featureProbsSource"})
              \cup {"trainingSource"} |->
        IF k = "trainingSource" THEN "trainingSource" ELSE call_args[k] ]

\* C9: the (key, class, log_prob) rows a scoring call reads when it is given
\* the relations create_prepared_data built (as TABLE or as VIEW) are the rows
\* it reads when it is given the raw training data instead; and
\* __init_prepared_data leaves a classPriorsSource, featureProbsSource or
\* smoothingFactor of the caller as it is, the default smoothingFactor being 1.
C9_PreparedEqualsRaw ==
    /\ (Scored /\ "classPriorsSource" \in DOMAIN call_args) =>
          /\ call_args.classPriorsSource = "classPriorsDest"
          /\ call_args.featureProbsSource = "featureProbsDest"
          /\ classPriorsDest.kind = featureProbsDest.kind
          /\ classPriorsDest.kind \in {"TABLE", "VIEW"}
          /\ Range(keys_and_nb_values) =
                Range(Relation(scoring_kwargs(RawArgs), "keys_and_prob_values"))
    /\ (call \in ScoringCalls \cup {"create_classification_function"}) =>
          /\ \A k \in DOMAIN call_args : call_kwargs[k] = call_args[k]
          /\ (call \in ScoringCalls /\ "smoothingFactor" \notin DOMAIN call_args) =>
                call_kwargs.smoothingFactor = 1

\* a call given the tables of create_prepared_data and smoothingFactor 0 has
\* scored a record
C9_Witness ==
    /\ Scored
    /\ "classPriorsSource" \in DOMAIN call_args
    /\ "smoothingFactor" \in DOMAIN call_args /\ call_args.smoothingFactor = 0
    /\ featureProbsDest.kind = "TABLE"
    /\ Cardinality(ObservedClasses) = 2
    /\ \E r \in Range(keys_and_nb_values) : ~ r.log_prob.isnull

\* the class-priors relation a state holds, as for the feature counts
ClassPriorsBuilt ==
    \/ classPriorsDest.kind # "NONE"
    \/ call \in ScoringCalls /\ call_kwargs.classPriorsSource = "(class_priors)"
ClassPriorsRows ==
    IF classPriorsDest.kind # "NONE" THEN classPriorsDest.rows
    ELSE Relation(call_kwargs, "classPriorsSource")

\* sum of cnt over the feature-count rows of class c and attribute i
CntSum(rows, c, i) ==
    LET part == SelectSeq(rows, LAMBDA r : r.class = c /\ r.attr = i)
    IN  SumSeq([ j \in DOMAIN part |-> part[j].cnt ])

\* every training record has a value for every attribute 1..numAttrs
EveryRecordComplete ==
    \A t \in DOMAIN trainingSource : Len(trainingSource[t].attrs) = NumAttrs

\* C10: for every observed class c and attribute i the cnt of the feature-count
\* rows (c, i, a) sum to at most class_cnt of c, and to exactly class_cnt when
\* every training record has a value for every attribute; the class priors hold
\* one row per observed class and their class_cnt sum to all_cnt.
C10_CountSums ==
    /\ ClassPriorsBuilt =>
          LET cp == ClassPriorsRows
          IN  /\ { cp[p].class : p \in DOMAIN cp } = ObservedClasses
              /\ \A p \in DOMAIN cp :
                    /\ cp[p].class_cnt = ClassCount(cp[p].class)
                    /\ cp[p].all_cnt = SumSeq([ q \in DOMAIN cp |-> cp[q].class_cnt ])
    /\ FeatureProbsBuilt =>
          \A c \in ObservedClasses : \A i \in 1..NumAttrs :
              /\ CntSum(FeatureProbsRows, c, i) <= ClassCount(c)
              /\ EveryRecordComplete => CntSum(FeatureProbsRows, c, i) = ClassCount(c)

\* feature counts where, for some class and attribute, a record without a value
\* makes the sum of cnt fall short of class_cnt
C10_Witness ==
    /\ featureProbsDest.kind # "NONE"
    /\ \E c \in ObservedClasses : \E i \in 1..NumAttrs :
          /\ CntSum(featureProbsDest.rows, c, i) > 0
          /\ CntSum(featureProbsDest.rows, c, i) < ClassCount(c)

\* every one of the numAttrs values of attrs was observed for its attribute in
\* some training record
EveryValueObserved(attrs) ==
    \A i \in 1..NumAttrs : Subscript(attrs, i) \in ObservedValues(i)

\* C11: with s > 0 and the statistics of __get_feature_probs_sql, whether a
\* record can be scored does not depend on the class: its log_prob is non-null
\* for all classes when each of its numAttrs values was observed for that
\* attribute somewhere in the training data, and null for all classes
\* otherwise, so no key has both null and non-null classes; a value never seen
\* together with class c does not make class c null.
C11_ScorableForAllClassesOrNone ==
    /\ (Scored /\ call_kwargs.smoothingFactor > 0) =>
          \A t \in DOMAIN classifySource : \A p \in Range(ScoringClassPriors) :
              LogProbOf(keys_and_nb_values, classifySource[t].key, p.class).isnull
                 = ~ EveryValueObserved(classifySource[t].attrs)
    /\ FunctionCreated =>
          \A attrs \in Arrays(0) : \A s \in 1..MaxSmoothing :
              \A p \in Range(ScoringClassPriors) :
                  LET rows == ClassRows(ProbValues(attrs, s), p.class)
                  IN  MaxLog([ i \in DOMAIN rows |-> rows[i].log_prob ]).isnull
                         = ~ EveryValueObserved(attrs)

\* scored with s > 0 over two classes: one record has a value never seen
\* together with one of the classes and is scored for both; another record has
\* a value seen in no training record and is scored for neither
C11_Witness ==
    /\ Scored /\ call_kwargs.smoothingFactor > 0
    /\ Cardinality(ObservedClasses) = 2
    /\ \E t \in DOMAIN classifySource :
          /\ \E c \in ObservedClasses :
                HasZeroCount(ScoringFeatureProbs, c, classifySource[t].attrs)
          /\ \A c \in ObservedClasses :
                ~ LogProbOf(keys_and_nb_values, classifySource[t].key, c).isnull
    /\ \E t \in DOMAIN classifySource :
          /\ ~ EveryValueObserved(classifySource[t].attrs)
          /\ \A c \in ObservedClasses :
                LogProbOf(keys_and_nb_values, classifySource[t].key, c).isnull

\* a step of create_prepared_data that creates, or that drops, a relation
Creates(r, rNext) == r.kind = "NONE" /\ rNext.kind # "NONE"
Drops(r, rNext) == r.kind # "NONE" /\ rNext.kind = "NONE"

\* what every step of create_prepared_data keeps to
PreparedDataStep ==
    (call' = "create_prepared_data" /\ "whatToCreate" \in DOMAIN call_kwargs') =>
        LET whatToCreate == call_kwargs'.whatToCreate
        IN  \* the class priors exist when the feature probabilities are created,
            \* and are what these read
            /\ Creates(featureProbsDest, featureProbsDest') =>
                  /\ classPriorsDest.kind = whatToCreate
                  /\ call_kwargs.classPriorsSource = "classPriorsDest"
                  /\ featureProbsDest'.kind = whatToCreate
            /\ featureProbsDest'.kind # "NONE" => classPriorsDest'.kind # "NONE"
            \* 'TABLE': the temporary tables exist when the feature-probabilities
            \* table is created, and are what it reads
            /\ (whatToCreate = "TABLE" /\ Creates(featureProbsDest, featureProbsDest')) =>
                  /\ tmp_attr_counts.kind = "TABLE" /\ tmp_attr_values.kind = "TABLE"
                  /\ call_kwargs.attrCountsSource = "tmp_attr_counts"
                  /\ call_kwargs.attrValuesSource = "tmp_attr_values"
            \* they are dropped together, in the step that ends the call, after
            \* the feature-probabilities table was created
            /\ (Drops(tmp_attr_counts, tmp_attr_counts')
                  \/ Drops(tmp_attr_values, tmp_attr_values')) =>
                  /\ tmp_attr_counts'.kind = "NONE" /\ tmp_attr_values'.kind = "NONE"
                  /\ pc' = "idle"
                  /\ outcome' = "ok" => featureProbsDest.kind = "TABLE"
            \* a completed call leaves both relations and no temporary table
            /\ (pc' = "idle" /\ outcome' = "ok") =>
                  /\ tmp_attr_counts'.kind = "NONE" /\ tmp_attr_values'.kind = "NONE"
                  /\ classPriorsDest'.kind = whatToCreate
                  /\ featureProbsDest'.kind = whatToCreate
            \* 'VIEW': no temporary table is created or dropped, and the views
            \* read the subqueries over the training data
            /\ whatToCreate = "VIEW" =>
                  /\ tmp_attr_counts.kind = "NONE" /\ tmp_attr_values.kind = "NONE"
                  /\ tmp_attr_counts'.kind = "NONE" /\ tmp_attr_values'.kind = "NONE"
                  /\ "attrCountsSource" \notin DOMAIN call_kwargs'
                  /\ "attrValuesSource" \notin DOMAIN call_kwargs'

\* C12: in create_prepared_data the class-priors relation is created before
\* the feature-probabilities relation, which reads it; with 'TABLE' the
\* temporary tables tmp_attr_counts and tmp_attr_values are created before the
\* feature-probabilities table that reads them and are dropped in the last
\* step, so that neither exists after a completed call; with 'VIEW' no
\* temporary table is created or dropped, so no view refers to a dropped relation.
C12_StepOrder == [][PreparedDataStep]_vars

\* a completed call with 'TABLE' on a training set of two classes: both tables
\* exist, filled from the temporary tables, which are gone
C12_Witness ==
    /\ call = "create_prepared_data" /\ pc = "idle" /\ outcome = "ok"
    /\ call_kwargs.whatToCreate = "TABLE"
    /\ call_kwargs.attrValuesSource = "tmp_attr_values"
    /\ Cardinality(ObservedClasses) = 2
    /\ classPriorsDest.kind = "TABLE" /\ featureProbsDest.kind = "TABLE"
    /\ featureProbsDest.rows # << >>
    /\ tmp_attr_counts.kind = "NONE" /\ tmp_attr_values.kind = "NONE"

====
